---- MODULE Spec2Model ----
(***************************************************************************)
(* Model of the Julian repository (utils.py, julian.py): calendar tests,   *)
(* the Meeus Julian Day algorithm, the time/angle conversions, the mean    *)
(* sidereal time polynomial and the command-line caller.                   *)
(*                                                                         *)
(* Python floats are IEEE-754 binary64 values.  They are modelled exactly: *)
(* a float is a record [s, m, e] standing for s * m * 2^e, where m is a    *)
(* 53-bit significand held as a little-endian sequence of 15-bit limbs     *)
(* (the model checker's integers are 32 bits wide) and every operation     *)
(* rounds its exact result to nearest, ties to even, as the hardware does. *)
(* Overflow, subnormals, infinities and NaN do not arise for the           *)
(* magnitudes handled here and are not modelled.                           *)
(***************************************************************************)
EXTENDS Integers, Sequences, FiniteSets, TLC

(***************************************************************************)
(* Natural numbers of arbitrary size: little-endian limb sequences,        *)
(* <<>> is zero, no zero limb at the top.                                  *)
(***************************************************************************)
\* the widest limb whose products, with carries, stay below 2^31
LimbBits == (31 - 1) \div 2
Base == 2^LimbBits

Limb(a, i) == IF i <= Len(a) THEN a[i] ELSE 0

Zeros(n) == [i \in 1..n |-> 0]

RECURSIVE NTrim(_)
NTrim(a) ==
    IF a = <<>> THEN a
    ELSE IF a[Len(a)] = 0 THEN NTrim(SubSeq(a, 1, Len(a) - 1)) ELSE a

RECURSIVE NFromInt(_)
NFromInt(n) == IF n = 0 THEN <<>> ELSE <<n % Base>> \o NFromInt(n \div Base)

RECURSIVE NToInt(_)
NToInt(a) == IF a = <<>> THEN 0 ELSE a[1] + Base * NToInt(Tail(a))

RECURSIVE NAddFrom(_, _, _, _)
NAddFrom(a, b, i, c) ==
    IF i > Len(a) /\ i > Len(b) THEN (IF c = 0 THEN <<>> ELSE <<c>>)
    ELSE LET x == Limb(a, i) + Limb(b, i) + c
         IN  <<x % Base>> \o NAddFrom(a, b, i + 1, x \div Base)

NAdd(a, b) == NAddFrom(a, b, 1, 0)

RECURSIVE NSubFrom(_, _, _, _)
NSubFrom(a, b, i, br) ==
    IF i > Len(a) THEN <<>>
    ELSE LET x == a[i] - Limb(b, i) - br
         IN  <<x % Base>> \o NSubFrom(a, b, i + 1, IF x < 0 THEN 1 ELSE 0)

\* a - b for a >= b
NSub(a, b) == NTrim(NSubFrom(a, b, 1, 0))

RECURSIVE NCmpFrom(_, _, _)
NCmpFrom(a, b, i) ==
    IF i = 0 THEN 0
    ELSE IF a[i] # b[i] THEN (IF a[i] < b[i] THEN -1 ELSE 1)
    ELSE NCmpFrom(a, b, i - 1)

\* -1, 0, 1 as a < b, a = b, a > b
NCmp(a, b) ==
    IF Len(a) # Len(b) THEN (IF Len(a) < Len(b) THEN -1 ELSE 1)
    ELSE NCmpFrom(a, b, Len(a))

RECURSIVE NMulSmallFrom(_, _, _, _)
NMulSmallFrom(a, k, i, c) ==
    IF i > Len(a) THEN (IF c = 0 THEN <<>> ELSE <<c>>)
    ELSE LET x == a[i] * k + c
         IN  <<x % Base>> \o NMulSmallFrom(a, k, i + 1, x \div Base)

\* a * k for 0 <= k <= Base
NMulSmall(a, k) == IF k = 0 THEN <<>> ELSE NMulSmallFrom(a, k, 1, 0)

\* a * Base
NShlLimb(a) == IF a = <<>> THEN <<>> ELSE <<0>> \o a

RECURSIVE NMul(_, _)
NMul(a, b) ==
    IF a = <<>> \/ b = <<>> THEN <<>>
    ELSE NAdd(NMulSmall(a, b[1]), NShlLimb(NMul(a, Tail(b))))

RECURSIVE NPow(_, _)
NPow(a, n) == IF n = 0 THEN <<1>> ELSE NMul(a, NPow(a, n - 1))

\* short division of limbs 1..i of a by d, 0 < d < 2^16, from the top limb
\* down; q and r are the quotient limbs and the remainder of the limbs above i
RECURSIVE NDivSmallFrom(_, _, _, _, _)
NDivSmallFrom(a, d, i, q, r) ==
    IF i = 0 THEN [q |-> NTrim(q), r |-> NFromInt(r)]
    ELSE NDivSmallFrom(a, d, i - 1, <<(r * Base + a[i]) \div d>> \o q,
                       (r * Base + a[i]) % d)

NDivSmall(a, d) == NDivSmallFrom(a, d, Len(a), <<>>, 0)

\* a * 2^k
NShl(a, k) ==
    IF a = <<>> THEN <<>>
    ELSE Zeros(k \div LimbBits) \o NMulSmall(a, 2^(k % LimbBits))

\* floor(a / 2^k)
NShr(a, k) ==
    LET w == k \div LimbBits
    IN  IF w >= Len(a) THEN <<>>
        ELSE NDivSmall(SubSeq(a, w + 1, Len(a)), 2^(k % LimbBits)).q

BitLenSmall(x) == CHOOSE k \in 1..LimbBits : 2^(k - 1) <= x /\ x < 2^k

NBitLen(a) ==
    IF a = <<>> THEN 0
    ELSE LimbBits * (Len(a) - 1) + BitLenSmall(a[Len(a)])

NOdd(a) == a # <<>> /\ a[1] % 2 = 1

\* the largest digit t = acc + (bits below 2^k) with b * t <= cur
RECURSIVE NDigit(_, _, _, _)
NDigit(cur, b, k, acc) ==
    IF k = 0 THEN acc
    ELSE LET t == acc + 2^(k - 1)
         IN  IF NCmp(NMulSmall(b, t), cur) <= 0
             THEN NDigit(cur, b, k - 1, t)
             ELSE NDigit(cur, b, k - 1, acc)

\* long division of limbs 1..i of a by b > 0, from the top limb down; q and r
\* are the quotient limbs and the remainder of the limbs above i, cur is the
\* remainder with limb i brought down and t its quotient digit
RECURSIVE NDivModFrom(_, _, _, _, _)
RECURSIVE NDivModCur(_, _, _, _, _)
RECURSIVE NDivModDigit(_, _, _, _, _, _)
NDivModFrom(a, b, i, q, r) ==
    IF i = 0 THEN [q |-> NTrim(q), r |-> r]
    ELSE NDivModCur(a, b, i, q, NTrim(<<a[i]>> \o r))

NDivModCur(a, b, i, q, cur) ==
    NDivModDigit(a, b, i, q, cur, NDigit(cur, b, LimbBits, 0))

NDivModDigit(a, b, i, q, cur, t) ==
    NDivModFrom(a, b, i - 1, <<t>> \o q, NSub(cur, NMulSmall(b, t)))

NDivMod(a, b) == NDivModFrom(a, b, Len(a), <<>>, <<>>)

\* the number of low zero bits of a # 0
RECURSIVE NTrailingZeros(_)
NTrailingZeros(a) ==
    IF a[1] = 0 THEN LimbBits + NTrailingZeros(Tail(a))
    ELSE CHOOSE k \in 0..(LimbBits - 1) :
            a[1] % 2^k = 0 /\ (a[1] \div 2^k) % 2 = 1

(***************************************************************************)
(* Binary64 floats: [s |-> 1 or -1, m |-> significand, e |-> exponent],    *)
(* the value s * m * 2^e with 2^52 <= m < 2^53; zero is [1, <<>>, 0].      *)
(***************************************************************************)
\* 52 stored significand bits and the implicit leading one
SigBits == 52 + 1

FZero == [s |-> 1, m |-> <<>>, e |-> 0]

\* q or q + 1: q = floor(n / 2^sh) rounded to nearest, ties to even, where
\* c compares the bits of n below 2^sh with the half 2^(sh - 1)
NRoundUp(q, c) == IF c > 0 \/ (c = 0 /\ NOdd(q)) THEN NAdd(q, <<1>>) ELSE q

NRoundHalfEven(n, sh, q) ==
    NRoundUp(q, NCmp(NSub(n, NShl(q, sh)), NShl(<<1>>, sh - 1)))

\* n / 2^sh rounded to nearest, ties to even, for sh >= 1
NRoundShr(n, sh) == NRoundHalfEven(n, sh, NShr(n, sh))

\* s * q * 2^e for a q of SigBits bits, or of SigBits + 1 bits when the
\* rounding carried
FCarry(s, q, e) ==
    IF NBitLen(q) > SigBits THEN [s |-> s, m |-> NShr(q, 1), e |-> e + 1]
    ELSE [s |-> s, m |-> q, e |-> e]

\* s * n * 2^e for an n of SigBits + sh bits
FRoundBits(s, n, e, sh) ==
    IF sh <= 0 THEN [s |-> s, m |-> NShl(n, -sh), e |-> e + sh]
    ELSE FCarry(s, NRoundShr(n, sh), e + sh)

\* s * n * 2^e rounded to nearest, ties to even
FRound(s, n, e) ==
    IF n = <<>> THEN FZero ELSE FRoundBits(s, n, e, NBitLen(n) - SigBits)

\* float(n) for a Python int n
FInt(n) ==
    FRound(IF n < 0 THEN -1 ELSE 1, NFromInt(IF n < 0 THEN -n ELSE n), 0)

FNeg(a) == IF a.m = <<>> THEN a ELSE [a EXCEPT !.s = -a.s]

FMul(a, b) ==
    IF a.m = <<>> \/ b.m = <<>> THEN FZero
    ELSE FRound(a.s * b.s, NMul(a.m, b.m), a.e + b.e)

\* sa * x * 2^e0 + sb * y * 2^e0, where c compares x with y
FAddLimbs(sa, x, sb, y, e0, c) ==
    FRound(IF c >= 0 THEN sa ELSE sb,
           IF sa = sb THEN NAdd(x, y)
           ELSE IF c >= 0 THEN NSub(x, y) ELSE NSub(y, x),
           e0)

FAddAligned(sa, x, sb, y, e0) == FAddLimbs(sa, x, sb, y, e0, NCmp(x, y))

\* a + b with both significands scaled to the smaller exponent e0
FAddAt(a, b, e0) ==
    FAddAligned(a.s, NShl(a.m, a.e - e0), b.s, NShl(b.m, b.e - e0), e0)

FAdd(a, b) ==
    IF a.m = <<>> THEN b
    ELSE IF b.m = <<>> THEN a
    ELSE FAddAt(a, b, IF a.e < b.e THEN a.e ELSE b.e)

FSub(a, b) == FAdd(a, FNeg(b))

\* s * (qr.q + sticky bit) * 2^e: the quotient with one more bit, set when
\* the remainder qr.r is nonzero
FDivSticky(s, qr, e) ==
    FRound(s, NAddFrom(qr.q, qr.q, 1, IF qr.r = <<>> THEN 0 ELSE 1), e)

FDivBy(s, num, d, e) ==
    FDivSticky(s, IF NBitLen(d) <= 16 THEN NDivSmall(num, NToInt(d))
                  ELSE NDivMod(num, d), e)

\* a / b where 2^tz is the largest power of two that divides b.m
FDivOdd(a, b, tz) ==
    FDivBy(a.s * b.s, NShl(a.m, SigBits + 3), NShr(b.m, tz),
           a.e - b.e - tz - (SigBits + 3) - 1)

\* a / b for b # 0: the exact quotient to more than SigBits + 2 bits, with a
\* sticky bit for a nonzero remainder, then one rounding
FDiv(a, b) ==
    IF a.m = <<>> THEN FZero ELSE FDivOdd(a, b, NTrailingZeros(b.m))

FSign(a) == IF a.m = <<>> THEN 0 ELSE a.s

\* -1, 0, 1 as a < b, a = b, a > b
FCmp(a, b) == FSign(FSub(a, b))

FLt(a, b) == FCmp(a, b) < 0

\* floor of a negative-exponent a, where q = floor(|a|)
FFloorOf(a, q) ==
    IF a.s = 1 \/ NShl(q, -a.e) = a.m THEN a.s * NToInt(q)
    ELSE -NToInt(q) - 1

\* math.floor(a) and math.trunc(a) (also int(a)) as Python ints
FFloor(a) ==
    IF a.m = <<>> THEN 0
    ELSE IF a.e >= 0 THEN a.s * NToInt(NShl(a.m, a.e))
    ELSE FFloorOf(a, NShr(a.m, -a.e))

FTrunc(a) ==
    IF a.m = <<>> THEN 0
    ELSE IF a.e >= 0 THEN a.s * NToInt(NShl(a.m, a.e))
    ELSE a.s * NToInt(NShr(a.m, -a.e))

\* a ** n for a Python int n >= 1: the exact power, rounded once
FPow(a, n) ==
    IF a.m = <<>> THEN FZero
    ELSE FRound(IF n % 2 = 0 THEN 1 ELSE a.s, NPow(a.m, n), a.e * n)

\* the remainder with both significands scaled to the smaller exponent e0
FFmodAt(a, b, e0) ==
    FRound(a.s, NDivMod(NShl(a.m, a.e - e0), NShl(b.m, b.e - e0)).r, e0)

\* C fmod(a, b), b # 0: exact, with the sign of a
FFmod(a, b) ==
    IF a.m = <<>> THEN FZero
    ELSE FFmodAt(a, b, IF a.e < b.e THEN a.e ELSE b.e)

\* a remainder that follows the sign of the dividend, as C's fmod does
FMod_sign_of_dividend(a, b) == FFmod(a, b)

\* b is added to the remainder r when r is nonzero and its sign differs from b's
FModSign(r, b) == IF r.m # <<>> /\ r.s # b.s THEN FAdd(r, b) ELSE r

\* Python's a % b on floats (float_rem): fmod, then the sign of b
FMod(a, b) == FModSign(FFmod(a, b), b)

RECURSIVE NFromDigits(_)
NFromDigits(ds) ==
    IF ds = <<>> THEN <<>>
    ELSE NAdd(NMulSmall(NFromDigits(SubSeq(ds, 1, Len(ds) - 1)), 10),
              NFromInt(ds[Len(ds)]))

\* a decimal literal as the Python parser reads it: the float nearest to
\* (the number written by the digits ds) / 10^k; both are below 2^53
FLit(ds, k) ==
    FDiv(FRound(1, NFromDigits(ds), 0), FRound(1, NPow(NFromInt(10), k), 0))

\* s * p * 2^(-sh) rounded half-even to an integer, then divided by 10^k
FRoundDecOf(s, p, sh, k) ==
    FDiv(FRound(s, IF sh <= 0 THEN NShl(p, -sh) ELSE NRoundShr(p, sh), 0),
         FRound(1, NPow(NFromInt(10), k), 0))

\* round(a, k) for a float a: the exact value rounded half-even to k decimals
\* (the shortest-decimal routine is correctly rounded), read back as a float
FRoundDec(a, k) ==
    IF a.m = <<>> THEN FZero
    ELSE FRoundDecOf(a.s, NMul(a.m, NPow(NFromInt(10), k)), -a.e, k)

(***************************************************************************)
(* utils.py                                                                *)
(***************************************************************************)
DEGREES_PER_HOUR == FDiv(FInt(360), FInt(24))
DEGREES_PER_MINUTE == FDiv(FInt(360), FInt(1440))
DEGREES_PER_SECOND == FDiv(FInt(360), FInt(86400))

\* hours and minutes are Python ints, seconds is a float
time_to_angle(hours, minutes, seconds) ==
    FAdd(FAdd(FMul(FInt(hours), DEGREES_PER_HOUR),
              FMul(FInt(minutes), DEGREES_PER_MINUTE)),
         FMul(seconds, DEGREES_PER_SECOND))

\* the returned tuple (int, int, float)
angle_to_time_return(hours, minutes, seconds) ==
    <<FTrunc(hours), FTrunc(minutes), FRoundDec(seconds, 6)>>

\* (x - math.floor(x)) * 60
fraction_times_60(x) == FMul(FSub(x, FInt(FFloor(x))), FInt(60))

angle_to_time_minutes(hours, minutes) ==
    angle_to_time_return(hours, minutes, fraction_times_60(minutes))

angle_to_time_hours(hours) ==
    angle_to_time_minutes(hours, fraction_times_60(hours))

angle_to_time(degrees) == angle_to_time_hours(FDiv(degrees, DEGREES_PER_HOUR))

is_leap(year) == year % 4 = 0 /\ (year % 100 # 0 \/ year % 400 = 0)

\* the float literals of day_fraction: 24.0, 1440.0, 1000.0, 86400.0
Lit24 == FLit(<<2, 4, 0>>, 1)
Lit1440 == FLit(<<1, 4, 4, 0, 0>>, 1)
Lit1000 == FLit(<<1, 0, 0, 0, 0>>, 1)
Lit86400 == FLit(<<8, 6, 4, 0, 0, 0>>, 1)

\* all four arguments are Python ints
day_fraction(hours, minutes, seconds, milliseconds) ==
    FAdd(FAdd(FDiv(FInt(hours), Lit24), FDiv(FInt(minutes), Lit1440)),
         FDiv(FAdd(FInt(seconds), FDiv(FInt(milliseconds), Lit1000)), Lit86400))

\* the calendar change put on October 15 inclusive
is_julian_through_15(year, month, day) ==
    year < 1582 \/ (year = 1582 /\ (month < 10 \/ (month = 10 /\ day <= 15)))

\* 'or' binding tighter than 'and'
is_julian_or_first(year, month, day) ==
    (year < 1582 \/ year = 1582) /\ (month < 10 \/ (month = 10 /\ day < 15))

\* the calendar change put on the first day that never occurred
is_julian_before_gap(year, month, day) ==
    year < 1582 \/ (year = 1582 /\ (month < 10 \/ (month = 10 /\ day < 5)))

\* year, month and day are Python ints
is_julian(year, month, day) ==
    year < 1582 \/ (year = 1582 /\ (month < 10 \/ (month = 10 /\ day < 15)))

\* the float literals of julian_day: 365.25, 30.6001, 1524.5
Lit365_25 == FLit(<<3, 6, 5, 2, 5>>, 2)
Lit30_6001 == FLit(<<3, 0, 6, 0, 0, 1>>, 4)
Lit1524_5 == FLit(<<1, 5, 2, 4, 5>>, 1)

\* b for the Gregorian calendar, from a = math.trunc(year / 100)
julian_day_b_gregorian(a) == 2 - a + FTrunc(FDiv(FInt(a), FInt(4)))

\* b, for the shifted year and month and the day as is_julian gets it
julian_day_b(year, month, day) ==
    IF is_julian(year, month, day) THEN 0
    ELSE julian_day_b_gregorian(FTrunc(FDiv(FInt(year), FInt(100))))

\* jd, for the shifted year and month
julian_day_jd(year, month, day, b) ==
    FSub(FAdd(FAdd(FInt(FTrunc(FMul(Lit365_25, FInt(year + 4716)))
                        + FTrunc(FMul(Lit30_6001, FInt(month + 1)))),
                   day),
              FInt(b)),
         Lit1524_5)

\* only January counted as a month of the preceding year
julian_day_january_only(year, month, day) ==
    LET y == IF month = 1 THEN year - 1 ELSE year
        m == IF month = 1 THEN month + 12 ELSE month
    IN  julian_day_jd(y, m, day, julian_day_b(y, m, FTrunc(day)))

\* the calendar classified with the day rounded to the nearest int
julian_day_rounded_day(year, month, day) ==
    LET y == IF month = 1 \/ month = 2 THEN year - 1 ELSE year
        m == IF month = 1 \/ month = 2 THEN month + 12 ELSE month
    IN  julian_day_jd(y, m, day,
                      julian_day_b(y, m, FFloor(FAdd(day, FLit(<<5>>, 1)))))

\* year and month are Python ints, day is a float (an int day converts exactly)
julian_day(year, month, day) ==
    LET y == IF month = 1 \/ month = 2 THEN year - 1 ELSE year
        m == IF month = 1 \/ month = 2 THEN month + 12 ELSE month
    IN  julian_day_jd(y, m, day, julian_day_b(y, m, FTrunc(day)))

\* the float literals of mean_sidereal_time
Lit2451545 == FLit(<<2, 4, 5, 1, 5, 4, 5, 0>>, 1)
Lit280_46061837 == FLit(<<2, 8, 0, 4, 6, 0, 6, 1, 8, 3, 7>>, 8)
Lit360_98564736629 == FLit(<<3, 6, 0, 9, 8, 5, 6, 4, 7, 3, 6, 6, 2, 9>>, 11)
Lit0_000387933 == FLit(<<3, 8, 7, 9, 3, 3>>, 9)

\* the Julian Day mean_sidereal_time computes first; year, month, day, hours
\* and minutes are Python ints, seconds is a float
sidereal_jd(y, m, d, hours, minutes, seconds) ==
    LET milliseconds == FTrunc(FMul(FSub(seconds, FInt(FFloor(seconds))), FInt(1000)))
    IN  julian_day(y, m, FAdd(FInt(d), day_fraction(hours, minutes, FTrunc(seconds),
                                                     milliseconds)))

\* the polynomial of mean_sidereal_time, before the % 360
sidereal_terms(j, t) ==
    FSub(FAdd(FAdd(Lit280_46061837,
                   FMul(Lit360_98564736629, FSub(j, Lit2451545))),
              FMul(Lit0_000387933, FPow(t, 2))),
         FDiv(FPow(t, 3), FInt(38710000)))

sidereal_polynomial(j) ==
    sidereal_terms(j, FDiv(FSub(j, Lit2451545), FInt(36525)))

mean_sidereal_time(y, m, d, hours, minutes, seconds) ==
    FMod(sidereal_polynomial(sidereal_jd(y, m, d, hours, minutes, seconds)), FInt(360))

(***************************************************************************)
(* The civil calendar the docstrings of is_leap and is_julian describe:    *)
(* the Julian calendar (a leap year every fourth year) through 1582        *)
(* October 4, the Gregorian calendar from 1582 October 15.                 *)
(***************************************************************************)
LeapInForce(y) ==
    IF y < 1582 THEN y % 4 = 0
    ELSE y % 4 = 0 /\ (y % 100 # 0 \/ y % 400 = 0)

DaysInMonth(y, m) ==
    IF m \in {4, 6, 9, 11} THEN 30
    ELSE IF m = 2 THEN (IF LeapInForce(y) THEN 29 ELSE 28)
    ELSE 31

\* the civil date following <<y, m, d>>
NextDate(y, m, d) ==
    IF <<y, m, d>> = <<1582, 10, 4>> THEN <<1582, 10, 15>>
    ELSE IF d < DaysInMonth(y, m) THEN <<y, m, d + 1>>
    ELSE IF m < 12 THEN <<y, m + 1, 1>>
    ELSE <<y + 1, 1, 1>>

\* the civil days of year y: 1582 October 5 to 14 are missing from 1582
DaysInYear(y) ==
    IF y = 1582 THEN 355 ELSE IF LeapInForce(y) THEN 366 ELSE 365

(***************************************************************************)
(* julian.py: its own copies of is_leap, day_fraction, is_julian and       *)
(* julian_day, and the command-line caller.                                *)
(***************************************************************************)
julian_is_leap(y) == y % 4 = 0 /\ (y % 100 # 0 \/ y % 400 = 0)

julian_day_fraction(hours, minutes, seconds, milliseconds) ==
    FAdd(FAdd(FDiv(FInt(hours), Lit24), FDiv(FInt(minutes), Lit1440)),
         FDiv(FAdd(FInt(seconds), FDiv(FInt(milliseconds), Lit1000)), Lit86400))

\* d is a float here: julian.py's julian_day passes the day as it got it
julian_is_julian(y, m, d) ==
    y < 1582 \/ (y = 1582 /\ (m < 10 \/ (m = 10 /\ FLt(d, FInt(15)))))

julian_julian_day_b_gregorian(a) == 2 - a + FTrunc(FDiv(FInt(a), FInt(4)))

julian_julian_day_b(y, m, d) ==
    IF julian_is_julian(y, m, d) THEN 0
    ELSE julian_julian_day_b_gregorian(FTrunc(FDiv(FInt(y), FInt(100))))

julian_julian_day_jd(y, m, d, b) ==
    FSub(FAdd(FAdd(FInt(FTrunc(FMul(Lit365_25, FInt(y + 4716)))
                        + FTrunc(FMul(Lit30_6001, FInt(m + 1)))),
                   d),
              FInt(b)),
         Lit1524_5)

julian_julian_day(y0, m0, d) ==
    LET y == IF m0 = 1 \/ m0 = 2 THEN y0 - 1 ELSE y0
        m == IF m0 = 1 \/ m0 = 2 THEN m0 + 12 ELSE m0
    IN  julian_julian_day_jd(y, m, d, julian_julian_day_b(y, m, d))

\* main(): what it prints for the clock reading dt_now, a record of the
\* datetime's fields
main(dt_now) ==
    LET d == julian_day_fraction(dt_now.hour, dt_now.minute, dt_now.second,
                                 dt_now.microsecond)
    IN  julian_julian_day(dt_now.year, dt_now.month, d)

(***************************************************************************)
(* State.                                                                  *)
(*   pc                     which operation ran last                       *)
(*   year, month, day       a civil date walked forward from the epoch     *)
(*   elapsed                the civil days counted since the epoch         *)
(*   jd                     julian_day at noon of the date                 *)
(*   leap                   is_leap of the year                            *)
(*   args, ret, alt         a call: its arguments, the result of utils.py  *)
(*                          and the result of julian.py's copy             *)
(*   hms, degrees, back     a time of day, its angle, the angle as a time  *)
(*   poly, mst              the sidereal polynomial before and after % 360 *)
(*   now, printed           a clock reading and what main() prints for it  *)
(***************************************************************************)
VARIABLES pc, year, month, day, elapsed, jd, leap, args, ret, alt,
          hms, degrees, back, poly, mst, now, printed

walkVars == <<year, month, day, elapsed, jd, leap>>
callVars == <<args, ret, alt>>
angleVars == <<hms, degrees, back>>
siderealVars == <<poly, mst>>
mainVars == <<now, printed>>
vars == <<pc, walkVars, callVars, angleVars, siderealVars, mainVars>>

\* the parts of the state a specification does not use
NoWalk == year = 0 /\ month = 0 /\ day = 0 /\ elapsed = 0 /\ jd = FZero /\ leap = FALSE
NoCall == args = <<>> /\ ret = FZero /\ alt = FZero
NoAngle == hms = <<>> /\ degrees = FZero /\ back = <<>>
NoSidereal == poly = FZero /\ mst = FZero
NoMain == now = <<>> /\ printed = FZero

\* the epoch year: 4713 BC
EpochYear == -4712
\* the last year walked to
MaxYear == 2000
\* the years walked day by day; every year is entered at its January 1
WalkYears == {EpochYear, EpochYear + 1, EpochYear + 12, -1, 0, 1, 4, 100, 400, 1500,
              1581, 1582, 1583, 1600, 1700, 1900, 1999, 2000}

LitHalf == FLit(<<5>>, 1)

\* julian_day(y, m, d + 0.5): noon of the civil date
NoonJD(y, m, d) == julian_day(y, m, FAdd(FInt(d), LitHalf))

WalkInit ==
    /\ pc = "walk" /\ NoCall /\ NoAngle /\ NoSidereal /\ NoMain
    /\ year = EpochYear /\ month = 1 /\ day = 1
    /\ elapsed = 0
    /\ jd = NoonJD(EpochYear, 1, 1)
    /\ leap = is_leap(EpochYear)

WalkFrame == UNCHANGED <<pc, callVars, angleVars, siderealVars, mainVars>>

NextDay ==
    /\ WalkFrame
    /\ year \in WalkYears
    /\ year <= MaxYear
    /\ LET n == NextDate(year, month, day)
       IN  /\ year' = n[1] /\ month' = n[2] /\ day' = n[3]
           /\ elapsed' = elapsed + 1
           /\ jd' = NoonJD(n[1], n[2], n[3])
           /\ leap' = is_leap(n[1])

NextYear ==
    /\ WalkFrame
    /\ month = 1 /\ day = 1
    /\ year < MaxYear
    /\ year' = year + 1
    /\ UNCHANGED <<month, day>>
    /\ elapsed' = elapsed + DaysInYear(year)
    /\ jd' = NoonJD(year + 1, 1, 1)
    /\ leap' = is_leap(year + 1)

\* from the first of a month to the first of the next month of the year
NextMonth ==
    /\ WalkFrame
    /\ day = 1 /\ month < 12
    /\ year <= MaxYear
    /\ month' = month + 1
    /\ UNCHANGED <<year, day, leap>>
    /\ elapsed' = elapsed + (IF <<year, month>> = <<1582, 10>> THEN 21
                             ELSE DaysInMonth(year, month))
    /\ jd' = NoonJD(year, month + 1, 1)

WalkNext == NextDay \/ NextMonth \/ NextYear

SpecWalk == WalkInit /\ [][WalkNext]_vars

\* C1: julian_day at noon of every civil date from the epoch on is the number
\* of civil days elapsed since the epoch: 0 at -4712-01-01, one more at each
\* next date, 2451545 at 2000-01-01
C1_CountsDays ==
    /\ jd = FInt(elapsed)
    /\ (<<year, month, day>> = <<2000, 1, 1>> => jd = FInt(2451545))

C1_Witness == <<year, month, day>> = <<2000, 1, 1>> /\ elapsed = 2451545

\* julian_day(y, m, d): midnight at the start of the civil date
MidnightJD(y, m, d) == julian_day(y, m, FInt(d))

\* C2: julian_day(1582, 10, 4) = 2299159.5 and julian_day(1582, 10, 15) =
\* 2299160.5: the day after 1582 October 4 is exactly 1.0 later
C2_CutoverOneDay ==
    /\ <<year, month, day>> = <<1582, 10, 4>>
          => MidnightJD(year, month, day) = FLit(<<2, 2, 9, 9, 1, 5, 9, 5>>, 1)
    /\ <<year, month, day>> = <<1582, 10, 15>>
          => /\ MidnightJD(year, month, day) = FLit(<<2, 2, 9, 9, 1, 6, 0, 5>>, 1)
             /\ FSub(MidnightJD(year, month, day), MidnightJD(1582, 10, 4)) = FInt(1)

\* 1582 October 15 reached as the day after October 4
C2_Witness == <<year, month, day>> = <<1582, 10, 15>> /\ elapsed = 2299161

\* C5 as claimed: is_leap(year) is the leap rule of the calendar in force for
\* the year, and holds exactly when February 28 and March 1 are 2 days apart
C5_LeapOfCalendarInForce ==
    /\ leap = LeapInForce(year)
    /\ leap <=> (FSub(MidnightJD(year, 3, 1), MidnightJD(year, 2, 28)) = FInt(2))

(***************************************************************************)
(* Single calls of the calendar functions of both files, on a grid of      *)
(* arguments around the calendar change.                                   *)
(***************************************************************************)
\* the years, months and days called with: months 13 and 14 are what
\* julian_day passes for January and February
CallYears == {EpochYear, 0, 1581, 1582, 1583, MaxYear}
MaxMonth == 14
MaxDay == 32
\* days are called in steps of 1/DaySteps
DaySteps == 2

LeapCallYears == (EpochYear..(EpochYear + 12)) \cup (1490..(MaxYear + 10))

CallInit ==
    /\ pc = "idle" /\ NoWalk /\ NoCall /\ NoAngle /\ NoSidereal /\ NoMain

CallFrame == UNCHANGED <<walkVars, angleVars, siderealVars, mainVars>>

CallIsJulian ==
    /\ pc = "idle" /\ CallFrame
    /\ \E y \in CallYears, m \in 0..MaxMonth, d \in 0..MaxDay :
          /\ pc' = "is_julian"
          /\ args' = <<y, m, d>>
          /\ ret' = is_julian(y, m, d)
          /\ alt' = julian_is_julian(y, m, FInt(d))

CallJulianDay ==
    /\ pc = "idle" /\ CallFrame
    /\ \E y \in CallYears, m \in 1..12, q \in 0..(MaxDay * DaySteps) :
          LET d == FDiv(FInt(q), FInt(DaySteps))
          IN  /\ pc' = "julian_day"
              /\ args' = <<y, m, d>>
              /\ ret' = julian_day(y, m, d)
              /\ alt' = julian_julian_day(y, m, d)

CallIsLeap ==
    /\ pc = "idle" /\ CallFrame
    /\ \E y \in LeapCallYears :
          /\ pc' = "is_leap"
          /\ args' = <<y>>
          /\ ret' = is_leap(y)
          /\ alt' = julian_is_leap(y)

CallDayFraction ==
    /\ pc = "idle" /\ CallFrame
    /\ \E h \in {0, 1, 12, 23, 24, 25}, m \in {0, 1, 30, 59, 60, 61},
          sec \in {0, 1, 59}, ms \in {0, 1, 500, 999, 1000} :
          /\ pc' = "day_fraction"
          /\ args' = <<h, m, sec, ms>>
          /\ ret' = day_fraction(h, m, sec, ms)
          /\ alt' = julian_day_fraction(h, m, sec, ms)

CallNext == CallIsJulian \/ CallJulianDay \/ CallIsLeap \/ CallDayFraction

SpecCalls == CallInit /\ [][CallNext]_vars

\* a is before b in lexicographic order
LexBefore(a, b) ==
    \E i \in 1..Len(a) : a[i] < b[i] /\ \A j \in 1..(i - 1) : a[j] = b[j]

\* C3: is_julian(year, month, day) is true exactly when (year, month, day) is
\* before (1582, 10, 15) in lexicographic order: 1582 October 4 is Julian,
\* October 15 is not
C3_IsJulianIsLexBefore ==
    pc = "is_julian" => (ret <=> LexBefore(args, <<1582, 10, 15>>))

\* the first Gregorian day, called and found not Julian
C3_Witness == pc = "is_julian" /\ args = <<1582, 10, 15>> /\ ret = FALSE

NeverOccurred(a) == a[1] = 1582 /\ a[2] = 10 /\ 5 <= a[3] /\ a[3] <= 14

\* C4 as claimed: is_julian classifies 1582 October 5 to 14 as not Julian
C4_NeverOccurredNotJulian ==
    (pc = "is_julian" /\ NeverOccurred(args)) => (ret = FALSE /\ alt = FALSE)

\* C4 as amended: is_julian of either file returns for 1582 October 5 to 14,
\* and returns true: the days that never occurred are classified as Julian
C4_NeverOccurredJulian ==
    (pc = "is_julian" /\ NeverOccurred(args)) => (ret = TRUE /\ alt = TRUE)

C4_Witness == pc = "is_julian" /\ args = <<1582, 10, 10>> /\ ret = TRUE

\* C10: the copies of utils.py and julian.py return the same value: julian_day
\* (which truncates the day before it classifies the calendar in utils.py
\* only), is_julian, is_leap and day_fraction
C10_CopiesAgree == pc # "idle" => ret = alt

\* a fractional day of 1582 October on which both copies were called
C10_Witness ==
    /\ pc = "julian_day" /\ args[1] = 1582 /\ args[2] = 10
    /\ args[3] = FLit(<<1, 4, 5>>, 1)
    /\ ret = alt

(***************************************************************************)
(* A time of day converted to an angle and back, and angles converted to   *)
(* times.                                                                  *)
(***************************************************************************)
\* the seconds a time of day is given with
SecondsGiven == {FZero, FInt(30), FLit(<<5, 9, 5>>, 1)}
\* angles are given in quarter degrees, from -AngleSpan/4 to AngleSpan/4
AngleSpan == 120
AnglesGiven == {FDiv(FInt(k), FInt(4)) : k \in (-AngleSpan)..AngleSpan}
                  \cup {FLit(<<2, 5, 8, 7, 4, 1, 8, 5, 9>>, 6)}

AngleInit ==
    /\ pc = "idle" /\ NoWalk /\ NoCall /\ NoAngle /\ NoSidereal /\ NoMain

AngleFrame == UNCHANGED <<walkVars, callVars, siderealVars, mainVars>>

TimeToAngle ==
    /\ pc = "idle" /\ AngleFrame
    /\ \E h \in 0..23, m \in 0..59, sec \in SecondsGiven :
          /\ pc' = "time_to_angle"
          /\ hms' = <<h, m, sec>>
          /\ degrees' = time_to_angle(h, m, sec)
          /\ back' = back

GivenAngle ==
    /\ pc = "idle" /\ AngleFrame
    /\ \E d \in AnglesGiven :
          /\ pc' = "angle"
          /\ degrees' = d
          /\ UNCHANGED <<hms, back>>

AngleToTime ==
    /\ pc \in {"time_to_angle", "angle"} /\ AngleFrame
    /\ pc' = (IF pc = "angle" THEN "angle_to_time" ELSE "round_trip")
    /\ back' = angle_to_time(degrees)
    /\ UNCHANGED <<hms, degrees>>

AngleNext == TimeToAngle \/ GivenAngle \/ AngleToTime

SpecAngle == AngleInit /\ [][AngleNext]_vars

\* C6 as claimed: angle_to_time(time_to_angle(h, m, s)) is (h, m, s) again,
\* with s to 6 decimal places
C6_RoundTrip ==
    pc = "round_trip" => back = <<hms[1], hms[2], FRoundDec(hms[3], 6)>>

FAbs(a) == [a EXCEPT !.s = 1]

\* C7 as claimed: the hours field of angle_to_time(degrees) is
\* floor(degrees / 15), and hours, minutes and seconds recompose the angle up
\* to the rounding of the seconds
C7_HoursAreFloor ==
    pc \in {"angle_to_time", "round_trip"} =>
        /\ back[1] = FFloor(FDiv(degrees, FInt(15)))
        /\ FLt(FAbs(FSub(time_to_angle(back[1], back[2], back[3]), degrees)),
               FLit(<<1>>, 8))

(***************************************************************************)
(* mean_sidereal_time called on dates before and after J2000.0.            *)
(***************************************************************************)
SiderealInit ==
    /\ pc = "idle" /\ NoWalk /\ NoCall /\ NoAngle /\ NoSidereal /\ NoMain

MeanSiderealTime ==
    /\ pc = "idle"
    /\ UNCHANGED <<walkVars, ret, alt, angleVars, mainVars>>
    /\ \E y \in {EpochYear, -1, 0, 1582, 1987, 1999, 2000, 2024},
          m \in {1, 4, 10, 12}, d \in {1, 10, 31}, h \in {0, 19}, mi \in {0, 21},
          sec \in {FZero, FLit(<<3, 0, 5>>, 1)} :
          LET j == sidereal_jd(y, m, d, h, mi, sec)
          IN  /\ pc' = "mean_sidereal_time"
              /\ args' = <<y, m, d, h, mi, sec>>
              /\ poly' = sidereal_polynomial(j)
              /\ mst' = mean_sidereal_time(y, m, d, h, mi, sec)

SiderealNext == MeanSiderealTime

SpecSidereal == SiderealInit /\ [][SiderealNext]_vars

\* C8: mean_sidereal_time returns a value v with 0 <= v < 360, also where the
\* polynomial is negative (dates before J2000.0)
C8_InRange ==
    pc = "mean_sidereal_time" => (FCmp(mst, FZero) >= 0 /\ FLt(mst, FInt(360)))

\* a date before J2000.0: the polynomial is negative
C8_Witness ==
    pc = "mean_sidereal_time" /\ args[1] = 1987 /\ FLt(poly, FZero) /\ FLt(mst, FInt(360))

(***************************************************************************)
(* main() run at a reading of the UTC clock.                               *)
(***************************************************************************)
MainInit ==
    /\ pc = "idle" /\ NoWalk /\ NoCall /\ NoAngle /\ NoSidereal /\ NoMain

\* the clock readings: microsecond is in whole milliseconds here
Main ==
    /\ pc = "idle"
    /\ UNCHANGED <<walkVars, callVars, angleVars, siderealVars>>
    /\ \E y \in {1999, 2020}, m \in {1, 10, 12}, d \in {1, 15, 26, 31},
          h \in {0, 17}, mi \in {0, 52}, sec \in {0, 21},
          us \in {0, 1000, 500000, 999000} :
          LET t == [year |-> y, month |-> m, day |-> d, hour |-> h,
                    minute |-> mi, second |-> sec, microsecond |-> us]
          IN  /\ pc' = "main"
              /\ now' = t
              /\ printed' = main(t)

MainNext == Main

SpecMain == MainInit /\ [][MainNext]_vars

\* C9 as claimed: main() prints julian_day(year, month, day of the month + the
\* fraction of the day elapsed), the sub-second part counted as milliseconds
C9_PrintsNow ==
    pc = "main" =>
        printed = julian_julian_day(now.year, now.month,
                      FAdd(FInt(now.day),
                           julian_day_fraction(now.hour, now.minute, now.second,
                                               now.microsecond \div 1000)))

====
